---------------------------- MODULE Spec2Model ----------------------------
(***************************************************************************)
(* Consistent-hash ring with virtual nodes and the thread-safe per-shard   *)
(* key-value stores it routes to.  The repository holds two variants:      *)
(*   src/code.py  PhysicalNode / ConsistentHashRing / DistributedKVStore   *)
(*   src/main.py  KeyValueStore / Node / ConsistentHashRing / Cluster      *)
(* Both are modelled; the variable impl says which program is running.     *)
(***************************************************************************)
EXTENDS Integers, Sequences, FiniteSets, TLC

(* ------------------------------ bounds -------------------------------- *)
\* Number of ring positions: the 128-bit MD5 image scaled down to 0..MaxPos-1.
MaxPos == 4

\* ConsistentHashRing.virtual_nodes / .replicas: the virtual nodes per shard, a
\* constructor parameter (50 in both drivers), here 2.
replicas == 2

\* Calls the threads make on the cluster in the statement-level specification.
MaxCalls == 3

RingThreads == {"w1", "w2"}
StoreThreads == {"t1", "t2"}
StoreKeys == {"k1", "k2"}
Shards == {"A", "B"}
Keys == {"user_1"}
Values == {"x", "y"}
Positions == 0 .. (MaxPos - 1)
ReplicaIdx == 0 .. (replicas - 1)
VNodeIds == Shards \X ReplicaIdx

VARIABLES
    impl,               \* "code" (src/code.py) or "main" (src/main.py)
    md5,                \* the hash function: [vnode: VNodeIds -> Positions, key: Keys -> Positions]
    c_ring,             \* code.py ConsistentHashRing.ring: sorted list of hash values
    c_ring_map,         \* code.py ConsistentHashRing.ring_map: hash -> node id
    c_nodes,            \* code.py DistributedKVStore.nodes: node id -> PhysicalNode._store
    m_ring,             \* main.py ConsistentHashRing.ring: position -> (node_id, replica_index)
    m_sorted_positions, \* main.py ConsistentHashRing.sorted_positions
    m_nodes,            \* main.py ConsistentHashRing.nodes: node id -> Node.store._data
    \* one store instance shared by concurrent callers (PhysicalNode / KeyValueStore)
    s_data,             \* PhysicalNode._store / KeyValueStore._data
    s_lock,             \* PhysicalNode._lock / KeyValueStore._lock: "free" or the holder
    s_pc,               \* per thread: where it is in its store call
    s_call,             \* per thread: the call [op, key, value]
    s_out,              \* per thread: the call's outcome so far [exc, val]
    lin_data,           \* history: the map after the calls linearized so far
    lin_out             \* history: per thread, the result its call has at its linearization point

storeVars == <<s_data, s_lock, s_pc, s_call, s_out, lin_data, lin_out>>

VARIABLES
    \* threads calling into one cluster, a statement at a time
    ring_lock,          \* code.py ConsistentHashRing._lock: "free" or the holder
    r_pc,               \* per thread: the statement it executes next
    r_loc,              \* per thread: the locals of its call
    r_out,              \* per thread: the outcome of its last call [exc, val]
    r_calls,            \* calls made so far by all threads
    \* the PhysicalNode objects behind code.py DistributedKVStore.nodes
    c_obj,              \* node id -> which PhysicalNode object self.nodes[id] is (1, 2, ...)
    c_orphans,          \* <<node id, object>> -> _store of an object replaced in self.nodes
    node_locks          \* PhysicalNode._lock: the set of <<node id, object, holder>>

objectVars == <<c_obj, c_orphans, node_locks>>

ringThreadVars == <<ring_lock, r_pc, r_loc, r_out, r_calls, objectVars>>

seqVars == <<impl, md5, c_ring, c_ring_map, c_nodes, m_ring, m_sorted_positions, m_nodes>>

vars == <<seqVars, storeVars, ringThreadVars>>

(* ------------------------ dictionaries and lists ---------------------- *)
EmptyDict == [x \in {} |-> x]

DictSet(d, k, v) == [x \in (DOMAIN d) \cup {k} |-> IF x = k THEN v ELSE d[x]]

DictDel(d, k) == [x \in (DOMAIN d) \ {k} |-> d[x]]

Elems(s) == {s[i] : i \in DOMAIN s}

IsSorted(s) == \A i \in 1 .. (Len(s) - 1) : s[i] <= s[i + 1]

StrictlyAscending(s) == \A i \in 1 .. (Len(s) - 1) : s[i] < s[i + 1]

InsertAt(s, i, x) == SubSeq(s, 1, i) \o <<x>> \o SubSeq(s, i + 1, Len(s))

RemoveAt(s, i) == SubSeq(s, 1, i - 1) \o SubSeq(s, i + 1, Len(s))

\* bisect.bisect_left(a, x): binary search, 0-based result, lo..hi as in CPython.
RECURSIVE BisectLeftLoop(_, _, _, _)
BisectLeftLoop(a, x, lo, hi) ==
    IF lo < hi
    THEN LET mid == (lo + hi) \div 2
         IN  IF a[mid + 1] < x
             THEN BisectLeftLoop(a, x, mid + 1, hi)
             ELSE BisectLeftLoop(a, x, lo, mid)
    ELSE lo

bisect_left(a, x) == BisectLeftLoop(a, x, 0, Len(a))

\* bisect.bisect_right(a, x)
RECURSIVE BisectRightLoop(_, _, _, _)
BisectRightLoop(a, x, lo, hi) ==
    IF lo < hi
    THEN LET mid == (lo + hi) \div 2
         IN  IF x < a[mid + 1]
             THEN BisectRightLoop(a, x, lo, mid)
             ELSE BisectRightLoop(a, x, mid + 1, hi)
    ELSE lo

bisect_right(a, x) == BisectRightLoop(a, x, 0, Len(a))

\* bisect.insort(a, x) (= insort_right)
insort(a, x) == InsertAt(a, bisect_right(a, x), x)

\* list.remove(x): drops the first occurrence (the callers test membership first).
RECURSIVE FirstIndex(_, _, _)
FirstIndex(s, x, i) ==
    IF i > Len(s) THEN 0
    ELSE IF s[i] = x THEN i ELSE FirstIndex(s, x, i + 1)

list_remove(s, x) ==
    LET i == FirstIndex(s, x, 1) IN IF i = 0 THEN s ELSE RemoveAt(s, i)

\* list.sort(): insertion sort, stable.
RECURSIVE list_sort(_)
list_sort(s) ==
    IF Len(s) <= 1 THEN s
    ELSE insort(list_sort(SubSeq(s, 1, Len(s) - 1)), s[Len(s)])

\* dict iteration order is insertion order; the loops below are order-insensitive
\* when run to completion, so a set is enumerated in ascending order.
RECURSIVE SetToSeq(_)
SetToSeq(S) ==
    IF S = {} THEN <<>>
    ELSE LET m == CHOOSE x \in S : \A y \in S : x <= y
         IN  <<m>> \o SetToSeq(S \ {m})

(* ---------------------------- hash function --------------------------- *)
\* code.py _hash_val(f"{node_id}:{i}") and main.py hash_value(f"{node_id}#{r}")
hash_vnode(node_id, i) == md5.vnode[<<node_id, i>>]

\* code.py _hash_val(key) and main.py hash_value(key)
hash_value(key) == md5.key[key]

(* ============================ src/code.py ============================= *)
\* PhysicalNode.put
PhysicalNode_put(store, key, value) == DictSet(store, key, value)

\* PhysicalNode.get: dict.get returns None for a missing key
PhysicalNode_get(store, key) == IF key \in DOMAIN store THEN store[key] ELSE "None"

\* PhysicalNode.delete: returns nothing
PhysicalNode_delete(store, key) == IF key \in DOMAIN store THEN DictDel(store, key) ELSE store

\* One iteration of the loop of ConsistentHashRing.add_node on rg = [ring, ring_map].
code_add_node_iter(rg, node_id, i) ==
    LET h == hash_vnode(node_id, i)
    IN  [ring |-> insort(rg.ring, h), ring_map |-> DictSet(rg.ring_map, h, node_id)]

RECURSIVE code_add_node_loop(_, _, _)
code_add_node_loop(rg, node_id, i) ==
    IF i >= replicas THEN rg
    ELSE code_add_node_loop(code_add_node_iter(rg, node_id, i), node_id, i + 1)

\* ConsistentHashRing.add_node (code.py)
code_add_node(rg, node_id) == code_add_node_loop(rg, node_id, 0)

\* Faulty variant: the comparison is inverted, the other shards' hashes are collected.
hashes_of_other_nodes(ring_map, node_id) ==
    SetToSeq({h \in DOMAIN ring_map : ring_map[h] # node_id})

\* hashes_to_remove of ConsistentHashRing.remove_node
hashes_to_remove(ring_map, node_id) ==
    SetToSeq({h \in DOMAIN ring_map : ring_map[h] = node_id})

RECURSIVE code_remove_node_loop(_, _, _)
code_remove_node_loop(rg, hs, j) ==
    IF j > Len(hs) THEN rg
    ELSE code_remove_node_loop(
             [ring |-> list_remove(rg.ring, hs[j]), ring_map |-> DictDel(rg.ring_map, hs[j])],
             hs, j + 1)

\* ConsistentHashRing.remove_node (code.py)
code_remove_node(rg, node_id) ==
    code_remove_node_loop(rg, hashes_to_remove(rg.ring_map, node_id), 1)

\* The search of ConsistentHashRing.get_node (code.py): 0-based index into ring.
code_search(ring, h) == bisect_left(ring, h)

\* ConsistentHashRing.get_node (code.py): [exc, val]
code_get_node(ring, ring_map, key) ==
    IF ring = <<>> THEN [exc |-> "", val |-> "None"]
    ELSE LET h == hash_value(key)
             i0 == code_search(ring, h)
             idx == IF i0 = Len(ring) THEN 0 ELSE i0
             target_hash == ring[idx + 1]
         IN  IF target_hash \in DOMAIN ring_map
             THEN [exc |-> "", val |-> ring_map[target_hash]]
             ELSE [exc |-> "KeyError", val |-> "None"]

CodeFrame == UNCHANGED <<impl, md5, m_ring, m_sorted_positions, m_nodes, storeVars, ringThreadVars>>

\* The registration test of DistributedKVStore.add_server
add_server_is_new(node_id) == node_id \notin DOMAIN c_nodes

\* Faulty variant: the new shard's store starts with the entries of a shard
\* registered before it (entries migrate to the new shard).
add_server_migrating(node_id) ==
    IF add_server_is_new(node_id)
    THEN LET rg == code_add_node([ring |-> c_ring, ring_map |-> c_ring_map], node_id)
             old == IF DOMAIN c_nodes = {} THEN EmptyDict
                    ELSE c_nodes[CHOOSE n \in DOMAIN c_nodes : TRUE]
         IN  [exc |-> "", val |-> "None", ring |-> rg.ring, ring_map |-> rg.ring_map,
              nodes |-> DictSet(c_nodes, node_id, old)]
    ELSE [exc |-> "", val |-> "None", ring |-> c_ring, ring_map |-> c_ring_map,
          nodes |-> c_nodes]

\* DistributedKVStore.add_server: the outcome [exc, val] and the state it leaves
add_server(node_id) ==
    IF add_server_is_new(node_id)
    THEN LET rg == code_add_node([ring |-> c_ring, ring_map |-> c_ring_map], node_id)
         IN  [exc |-> "", val |-> "None", ring |-> rg.ring, ring_map |-> rg.ring_map,
              nodes |-> DictSet(c_nodes, node_id, EmptyDict)]
    ELSE [exc |-> "", val |-> "None", ring |-> c_ring, ring_map |-> c_ring_map,
          nodes |-> c_nodes]

\* DistributedKVStore.remove_server
remove_server(node_id) ==
    IF node_id \in DOMAIN c_nodes
    THEN LET rg == code_remove_node([ring |-> c_ring, ring_map |-> c_ring_map], node_id)
         IN  [exc |-> "", val |-> "None", ring |-> rg.ring, ring_map |-> rg.ring_map,
              nodes |-> c_nodes]
    ELSE [exc |-> "", val |-> "None", ring |-> c_ring, ring_map |-> c_ring_map,
          nodes |-> c_nodes]

\* Faulty variant: the write goes to the store of every registered node.
DistributedKVStore_put_everywhere(nodes, key, value) ==
    LET t == code_get_node(c_ring, c_ring_map, key)
    IN  IF t.exc # "" THEN [exc |-> t.exc, val |-> "None", nodes |-> nodes]
        ELSE IF t.val = "None"
        THEN [exc |-> "Exception: No servers available!", val |-> "None", nodes |-> nodes]
        ELSE IF t.val \notin DOMAIN nodes
        THEN [exc |-> "KeyError", val |-> "None", nodes |-> nodes]
        ELSE [exc |-> "", val |-> "None",
              nodes |-> [n \in DOMAIN nodes |-> PhysicalNode_put(nodes[n], key, value)]]

\* DistributedKVStore.put
DistributedKVStore_put(nodes, key, value) ==
    LET t == code_get_node(c_ring, c_ring_map, key)
    IN  IF t.exc # "" THEN [exc |-> t.exc, val |-> "None", nodes |-> nodes]
        ELSE IF t.val = "None"
        THEN [exc |-> "Exception: No servers available!", val |-> "None", nodes |-> nodes]
        ELSE IF t.val \notin DOMAIN nodes
        THEN [exc |-> "KeyError", val |-> "None", nodes |-> nodes]
        ELSE [exc |-> "", val |-> "None",
              nodes |-> [nodes EXCEPT ![t.val] = PhysicalNode_put(@, key, value)]]

\* DistributedKVStore.get
DistributedKVStore_get(nodes, key) ==
    LET t == code_get_node(c_ring, c_ring_map, key)
    IN  IF t.exc # "" THEN [exc |-> t.exc, val |-> "None"]
        ELSE IF t.val # "None" /\ t.val \in DOMAIN nodes
        THEN [exc |-> "", val |-> PhysicalNode_get(nodes[t.val], key)]
        ELSE [exc |-> "", val |-> "None"]

\* DistributedKVStore.delete
DistributedKVStore_delete(nodes, key) ==
    LET t == code_get_node(c_ring, c_ring_map, key)
    IN  IF t.exc # "" THEN [exc |-> t.exc, val |-> "None", nodes |-> nodes]
        ELSE IF t.val # "None" /\ t.val \in DOMAIN nodes
        THEN [exc |-> "", val |-> "None",
              nodes |-> [nodes EXCEPT ![t.val] = PhysicalNode_delete(@, key)]]
        ELSE [exc |-> "", val |-> "None", nodes |-> nodes]

\* A caller's store.add_server(node_id)
Call_add_server(node_id) ==
    /\ impl = "code"
    /\ LET r == add_server(node_id)
       IN  /\ c_ring' = r.ring
           /\ c_ring_map' = r.ring_map
           /\ c_nodes' = r.nodes
    /\ CodeFrame

\* A caller's store.remove_server(node_id)
Call_remove_server(node_id) ==
    /\ impl = "code"
    /\ LET r == remove_server(node_id)
       IN  /\ c_ring' = r.ring
           /\ c_ring_map' = r.ring_map
           /\ c_nodes' = r.nodes
    /\ CodeFrame

\* A caller's store.ring.get_node(key): reads only
Call_get_node(key) ==
    /\ impl = "code"
    /\ code_get_node(c_ring, c_ring_map, key).exc \in {"", "KeyError"}
    /\ UNCHANGED <<c_ring, c_ring_map, c_nodes>>
    /\ CodeFrame

\* A caller's store.put(key, value)
Call_code_put(key, value) ==
    /\ impl = "code"
    /\ c_nodes' = DistributedKVStore_put(c_nodes, key, value).nodes
    /\ UNCHANGED <<c_ring, c_ring_map>>
    /\ CodeFrame

\* A caller's store.get(key): reads only
Call_code_get(key) ==
    /\ impl = "code"
    /\ DistributedKVStore_get(c_nodes, key).exc \in {"", "KeyError"}
    /\ UNCHANGED <<c_ring, c_ring_map, c_nodes>>
    /\ CodeFrame

\* A caller's store.delete(key)
Call_code_delete(key) ==
    /\ impl = "code"
    /\ c_nodes' = DistributedKVStore_delete(c_nodes, key).nodes
    /\ UNCHANGED <<c_ring, c_ring_map>>
    /\ CodeFrame

CodeNext ==
    \/ \E n \in Shards : Call_add_server(n)
    \/ \E n \in Shards : Call_remove_server(n)
    \/ \E k \in Keys : Call_get_node(k)
    \/ \E k \in Keys, v \in Values : Call_code_put(k, v)
    \/ \E k \in Keys : Call_code_get(k)
    \/ \E k \in Keys : Call_code_delete(k)

(* ============================ src/main.py ============================= *)
\* KeyValueStore.put
KeyValueStore_put(data, key, value) == DictSet(data, key, value)

\* KeyValueStore.get
KeyValueStore_get(data, key) == IF key \in DOMAIN data THEN data[key] ELSE "None"

\* KeyValueStore.delete: [data, val], val the returned bool
KeyValueStore_delete(data, key) ==
    IF key \in DOMAIN data
    THEN [data |-> DictDel(data, key), val |-> "True"]
    ELSE [data |-> data, val |-> "False"]

\* The collision test of ConsistentHashRing.add_node (main.py): `if pos in self.ring`
main_occupied(ring, pos) == pos \in DOMAIN ring

\* One iteration of the loop of ConsistentHashRing.add_node on st = [ring, sorted_positions].
main_add_node_iter(st, node_id, r) ==
    LET pos == hash_vnode(node_id, r)
    IN  IF main_occupied(st.ring, pos) THEN st
        ELSE [ring |-> DictSet(st.ring, pos, <<node_id, r>>),
              sorted_positions |-> Append(st.sorted_positions, pos)]

RECURSIVE main_add_node_loop(_, _, _)
main_add_node_loop(st, node_id, r) ==
    IF r >= replicas THEN st
    ELSE main_add_node_loop(main_add_node_iter(st, node_id, r), node_id, r + 1)

\* ConsistentHashRing.add_node (main.py), the loop and the trailing sort
main_add_node(st, node_id) ==
    LET l == main_add_node_loop(st, node_id, 0)
    IN  [ring |-> l.ring, sorted_positions |-> list_sort(l.sorted_positions)]

\* Faulty variant: the victim is the last position of the list.
main_victim_index_last(sorted_positions) == Len(sorted_positions)

\* The position ConsistentHashRing.remove_one_virtual_node picks: sorted_positions[0]
main_victim_index(sorted_positions) == 1

\* The search of ConsistentHashRing.get_node_for_key: 0-based index into sorted_positions.
main_search(sorted_positions, h) == bisect_right(sorted_positions, h)

\* ConsistentHashRing.get_node_for_key: [exc, val], val the id of the Node returned
get_node_for_key(ring, sorted_positions, nodes, key) ==
    IF sorted_positions = <<>> THEN [exc |-> "RuntimeError", val |-> "None"]
    ELSE LET h == hash_value(key)
             i0 == main_search(sorted_positions, h)
             idx == IF i0 = Len(sorted_positions) THEN 0 ELSE i0
             pos == sorted_positions[idx + 1]
         IN  IF pos \notin DOMAIN ring THEN [exc |-> "KeyError", val |-> "None"]
             ELSE IF ring[pos][1] \notin DOMAIN nodes THEN [exc |-> "KeyError", val |-> "None"]
             ELSE [exc |-> "", val |-> ring[pos][1]]

MainFrame == UNCHANGED <<impl, md5, c_ring, c_ring_map, c_nodes, storeVars, ringThreadVars>>

\* Cluster.add_node: Node(node_id), then ring.add_node(node)
Cluster_add_node(node_id) ==
    LET st == main_add_node([ring |-> m_ring, sorted_positions |-> m_sorted_positions], node_id)
    IN  [exc |-> "", val |-> "None", ring |-> st.ring,
         sorted_positions |-> st.sorted_positions,
         nodes |-> DictSet(m_nodes, node_id, EmptyDict)]

\* ConsistentHashRing.remove_one_virtual_node: val is (node_id, replica_index, pos)
remove_one_virtual_node ==
    IF m_sorted_positions = <<>>
    THEN [exc |-> "RuntimeError", val |-> <<>>, ring |-> m_ring,
          sorted_positions |-> m_sorted_positions]
    ELSE LET i == main_victim_index(m_sorted_positions)
             pos == m_sorted_positions[i]
         IN  IF pos \notin DOMAIN m_ring
             THEN [exc |-> "KeyError", val |-> <<>>, ring |-> m_ring,
                   sorted_positions |-> m_sorted_positions]
             ELSE [exc |-> "", val |-> <<m_ring[pos][1], m_ring[pos][2], pos>>,
                   ring |-> DictDel(m_ring, pos),
                   sorted_positions |-> RemoveAt(m_sorted_positions, i)]

\* Cluster.put
Cluster_put(nodes, key, value) ==
    LET t == get_node_for_key(m_ring, m_sorted_positions, nodes, key)
    IN  IF t.exc # "" THEN [exc |-> t.exc, val |-> "None", nodes |-> nodes]
        ELSE [exc |-> "", val |-> "None",
              nodes |-> [nodes EXCEPT ![t.val] = KeyValueStore_put(@, key, value)]]

\* Cluster.get
Cluster_get(nodes, key) ==
    LET t == get_node_for_key(m_ring, m_sorted_positions, nodes, key)
    IN  IF t.exc # "" THEN [exc |-> t.exc, val |-> "None"]
        ELSE [exc |-> "", val |-> KeyValueStore_get(nodes[t.val], key)]

\* Cluster.delete
Cluster_delete(nodes, key) ==
    LET t == get_node_for_key(m_ring, m_sorted_positions, nodes, key)
    IN  IF t.exc # "" THEN [exc |-> t.exc, val |-> "None", nodes |-> nodes]
        ELSE LET d == KeyValueStore_delete(nodes[t.val], key)
             IN  [exc |-> "", val |-> d.val, nodes |-> [nodes EXCEPT ![t.val] = d.data]]

\* A caller's cluster.add_node(node_id)
Call_add_node(node_id) ==
    /\ impl = "main"
    /\ LET r == Cluster_add_node(node_id)
       IN  /\ m_ring' = r.ring
           /\ m_sorted_positions' = r.sorted_positions
           /\ m_nodes' = r.nodes
    /\ MainFrame

\* A caller's cluster.ring.remove_one_virtual_node()
Call_remove_one_virtual_node ==
    /\ impl = "main"
    /\ m_ring' = remove_one_virtual_node.ring
    /\ m_sorted_positions' = remove_one_virtual_node.sorted_positions
    /\ UNCHANGED m_nodes
    /\ MainFrame

\* A caller's cluster.ring.get_node_for_key(key): reads only
Call_get_node_for_key(key) ==
    /\ impl = "main"
    /\ get_node_for_key(m_ring, m_sorted_positions, m_nodes, key).exc
           \in {"", "RuntimeError", "KeyError"}
    /\ UNCHANGED <<m_ring, m_sorted_positions, m_nodes>>
    /\ MainFrame

\* A caller's cluster.put(key, value)
Call_main_put(key, value) ==
    /\ impl = "main"
    /\ m_nodes' = Cluster_put(m_nodes, key, value).nodes
    /\ UNCHANGED <<m_ring, m_sorted_positions>>
    /\ MainFrame

\* A caller's cluster.get(key): reads only
Call_main_get(key) ==
    /\ impl = "main"
    /\ Cluster_get(m_nodes, key).exc \in {"", "RuntimeError", "KeyError"}
    /\ UNCHANGED <<m_ring, m_sorted_positions, m_nodes>>
    /\ MainFrame

\* A caller's cluster.delete(key)
Call_main_delete(key) ==
    /\ impl = "main"
    /\ m_nodes' = Cluster_delete(m_nodes, key).nodes
    /\ UNCHANGED <<m_ring, m_sorted_positions>>
    /\ MainFrame

MainNext ==
    \/ \E n \in Shards : Call_add_node(n)
    \/ Call_remove_one_virtual_node
    \/ \E k \in Keys : Call_get_node_for_key(k)
    \/ \E k \in Keys, v \in Values : Call_main_put(k, v)
    \/ \E k \in Keys : Call_main_get(k)
    \/ \E k \in Keys : Call_main_delete(k)

(* ========================= sequential callers ========================= *)
\* Both programs start with an empty ring and no shard (DistributedKVStore.__init__,
\* Cluster.__init__); md5 is any function into the position space.
InitEmptyCluster ==
    /\ c_ring = <<>>
    /\ c_ring_map = EmptyDict
    /\ c_nodes = EmptyDict
    /\ m_ring = EmptyDict
    /\ m_sorted_positions = <<>>
    /\ m_nodes = EmptyDict

\* PhysicalNode.__init__ / KeyValueStore.__init__: an empty store, its lock free,
\* no caller inside.
InitStoreIdle ==
    /\ s_data = EmptyDict
    /\ s_lock = "free"
    /\ s_pc = [t \in StoreThreads |-> "idle"]
    /\ s_call = [t \in StoreThreads |-> [op |-> "none", key |-> "", value |-> ""]]
    /\ s_out = [t \in StoreThreads |-> [exc |-> "", val |-> "None"]]
    /\ lin_data = EmptyDict
    /\ lin_out = [t \in StoreThreads |-> "None"]

NoLocals ==
    [op |-> "none", node |-> "", key |-> "", value |-> "", i |-> 0, hs |-> <<>>, idx |-> 0,
     pos |-> 0, nid |-> "", rep |-> 0, obj |-> 0, ret |-> "None"]

\* No thread is inside the cluster; ConsistentHashRing._lock (code.py:61) is free.
InitRingIdle ==
    /\ ring_lock = "free"
    /\ r_pc = [t \in RingThreads |-> "idle"]
    /\ r_loc = [t \in RingThreads |-> NoLocals]
    /\ r_out = [t \in RingThreads |-> [exc |-> "", val |-> "None"]]
    /\ r_calls = 0
    /\ c_obj = EmptyDict
    /\ c_orphans = EmptyDict
    /\ node_locks = {}

Init ==
    /\ impl \in {"code", "main"}
    /\ md5 \in [vnode : [VNodeIds -> Positions], key : [Keys -> Positions]]
    /\ InitEmptyCluster
    /\ InitStoreIdle
    /\ InitRingIdle

Next == CodeNext \/ MainNext

Spec == Init /\ [][Next]_vars

(* ============ one store under concurrent callers (threads) ============= *)
\* Faulty variant: the lock never blocks.
store_lock_never_blocks(lock) == TRUE

\* `with self._lock:` entry (code.py:24,29,34,40,45; main.py:37,42,47,55): the
\* caller blocks until no thread holds the lock.  The RLock of main.py is never
\* re-entered: no method calls another while holding it.
store_lock_acquirable(lock) == lock = "free"

\* The calls a thread may make on the store of the running variant.
StoreCalls ==
    [op : {"put"}, key : StoreKeys, value : Values]
        \cup [op : {"get", "delete"}, key : StoreKeys, value : {""}]
        \cup [op : IF impl = "code" THEN {"get_key_count", "dump_keys"} ELSE {"keys"},
              key : {""}, value : {""}]

\* The sequential map the calls are linearized against.
AbsApply(d, call) ==
    CASE call.op = "put" -> DictSet(d, call.key, call.value)
      [] call.op = "delete" -> DictDel(d, call.key)
      [] OTHER -> d

AbsResult(d, call) ==
    CASE call.op = "put" -> "None"
      [] call.op = "get" -> IF call.key \in DOMAIN d THEN d[call.key] ELSE "None"
      [] call.op = "delete" ->
            IF impl = "code" THEN "None"
            ELSE IF call.key \in DOMAIN d THEN "True" ELSE "False"
      [] call.op = "get_key_count" -> Cardinality(DOMAIN d)
      [] OTHER -> DOMAIN d

StoreFrame == UNCHANGED <<seqVars, ringThreadVars>>

\* A thread calls a method of the store.
StoreInvoke(t, call) ==
    /\ s_pc[t] = "idle"
    /\ s_pc' = [s_pc EXCEPT ![t] = "acquire"]
    /\ s_call' = [s_call EXCEPT ![t] = call]
    /\ UNCHANGED <<s_data, s_lock, s_out, lin_data, lin_out>>
    /\ StoreFrame

\* `with self._lock:` acquires.
StoreAcquire(t) ==
    /\ s_pc[t] = "acquire"
    /\ store_lock_acquirable(s_lock)
    /\ s_lock' = t
    /\ s_pc' = [s_pc EXCEPT ![t] = "body"]
    /\ UNCHANGED <<s_data, s_call, s_out, lin_data, lin_out>>
    /\ StoreFrame

\* The first statement under the lock; the call is linearized here.
StoreBody(t) ==
    /\ s_pc[t] = "body"
    /\ LET c == s_call[t]
       IN  /\ lin_data' = AbsApply(lin_data, c)
           /\ lin_out' = [lin_out EXCEPT ![t] = AbsResult(lin_data, c)]
           /\ CASE c.op = "put" ->
                    /\ s_data' = IF impl = "code" THEN PhysicalNode_put(s_data, c.key, c.value)
                                  ELSE KeyValueStore_put(s_data, c.key, c.value)
                    /\ s_out' = [s_out EXCEPT ![t] = [exc |-> "", val |-> "None"]]
                    /\ s_pc' = [s_pc EXCEPT ![t] = "release"]
                [] c.op = "get" ->
                    /\ s_out' = [s_out EXCEPT ![t] =
                                    [exc |-> "",
                                     val |-> IF impl = "code" THEN PhysicalNode_get(s_data, c.key)
                                             ELSE KeyValueStore_get(s_data, c.key)]]
                    /\ s_pc' = [s_pc EXCEPT ![t] = "release"]
                    /\ UNCHANGED s_data
                [] c.op = "delete" ->
                    \* `if key in self._store:` / `if key in self._data:`
                    /\ IF c.key \in DOMAIN s_data
                       THEN /\ s_pc' = [s_pc EXCEPT ![t] = "del"]
                            /\ UNCHANGED s_out
                       ELSE /\ s_pc' = [s_pc EXCEPT ![t] = "release"]
                            /\ s_out' = [s_out EXCEPT ![t] =
                                            [exc |-> "",
                                             val |-> IF impl = "code" THEN "None" ELSE "False"]]
                    /\ UNCHANGED s_data
                [] c.op = "get_key_count" ->
                    /\ s_out' = [s_out EXCEPT ![t] =
                                    [exc |-> "", val |-> Cardinality(DOMAIN s_data)]]
                    /\ s_pc' = [s_pc EXCEPT ![t] = "release"]
                    /\ UNCHANGED s_data
                [] OTHER ->
                    \* list(self._store.keys()): the enumeration starts
                    /\ s_out' = [s_out EXCEPT ![t] = [exc |-> "", val |-> {}]]
                    /\ s_pc' = [s_pc EXCEPT ![t] = "iter"]
                    /\ UNCHANGED s_data
    /\ UNCHANGED <<s_lock, s_call>>
    /\ StoreFrame

\* `del self._store[key]` (and `return True` in main.py)
StoreDel(t) ==
    /\ s_pc[t] = "del"
    /\ LET c == s_call[t]
       IN  IF c.key \in DOMAIN s_data
           THEN /\ s_data' = DictDel(s_data, c.key)
                /\ s_out' = [s_out EXCEPT ![t] =
                                [exc |-> "", val |-> IF impl = "code" THEN "None" ELSE "True"]]
           ELSE /\ s_out' = [s_out EXCEPT ![t] = [exc |-> "KeyError", val |-> "None"]]
                /\ UNCHANGED s_data
    /\ s_pc' = [s_pc EXCEPT ![t] = "release"]
    /\ UNCHANGED <<s_lock, s_call, lin_data, lin_out>>
    /\ StoreFrame

\* list(...keys()) copies the keys one at a time, and ends when none is left.
StoreIter(t) ==
    /\ s_pc[t] = "iter"
    /\ LET left == (DOMAIN s_data) \ s_out[t].val
       IN  IF left = {}
           THEN /\ s_pc' = [s_pc EXCEPT ![t] = "release"]
                /\ UNCHANGED s_out
           ELSE /\ \E k \in left :
                      s_out' = [s_out EXCEPT ![t] = [exc |-> "", val |-> @.val \cup {k}]]
                /\ UNCHANGED s_pc
    /\ UNCHANGED <<s_data, s_lock, s_call, lin_data, lin_out>>
    /\ StoreFrame

\* The `with` block is left: the lock is released, on the error exit too.
StoreRelease(t) ==
    /\ s_pc[t] = "release"
    /\ s_lock' = "free"
    /\ s_pc' = [s_pc EXCEPT ![t] = "done"]
    /\ UNCHANGED <<s_data, s_call, s_out, lin_data, lin_out>>
    /\ StoreFrame

\* The caller takes the result and goes on.
StoreReturn(t) ==
    /\ s_pc[t] = "done"
    /\ s_pc' = [s_pc EXCEPT ![t] = "idle"]
    /\ s_call' = [s_call EXCEPT ![t] = [op |-> "none", key |-> "", value |-> ""]]
    /\ s_out' = [s_out EXCEPT ![t] = [exc |-> "", val |-> "None"]]
    /\ lin_out' = [lin_out EXCEPT ![t] = "None"]
    /\ UNCHANGED <<s_data, s_lock, lin_data>>
    /\ StoreFrame

InitStore ==
    /\ impl \in {"code", "main"}
    /\ md5 = [vnode |-> [x \in VNodeIds |-> 0], key |-> [k \in Keys |-> 0]]
    /\ InitEmptyCluster
    /\ InitStoreIdle
    /\ InitRingIdle

NextStore ==
    \/ \E t \in StoreThreads : \E call \in StoreCalls : StoreInvoke(t, call)
    \/ \E t \in StoreThreads : StoreAcquire(t)
    \/ \E t \in StoreThreads : StoreBody(t)
    \/ \E t \in StoreThreads : StoreDel(t)
    \/ \E t \in StoreThreads : StoreIter(t)
    \/ \E t \in StoreThreads : StoreRelease(t)
    \/ \E t \in StoreThreads : StoreReturn(t)

SpecStore == InitStore /\ [][NextStore]_vars

(* ========= one cluster under concurrent callers, by statement ========= *)
\* `with self._lock:` of code.py add_node / remove_node (lines 71, 81).
ring_lock_acquirable(lock) == lock = "free"

RingFrame == UNCHANGED <<impl, md5, storeVars>>

\* What a statement of code.py leaves alone unless it says otherwise: the objects
\* of main.py, and the PhysicalNode objects and their locks.
CodeRingFrame == RingFrame /\ UNCHANGED <<m_ring, m_sorted_positions, m_nodes, objectVars>>

MainRingFrame ==
    RingFrame /\ UNCHANGED <<c_ring, c_ring_map, c_nodes, ring_lock, objectVars>>

Goto(t, label) == r_pc' = [r_pc EXCEPT ![t] = label]

\* The call returns val, or raises exc.
Finish(t, exc, val) ==
    /\ r_pc' = [r_pc EXCEPT ![t] = "done"]
    /\ r_out' = [r_out EXCEPT ![t] = [exc |-> exc, val |-> val]]
    /\ r_loc' = [r_loc EXCEPT ![t] =
                    [NoLocals EXCEPT !.op = r_loc[t].op, !.node = r_loc[t].node,
                                     !.key = r_loc[t].key, !.value = r_loc[t].value]]

\* The first statement of each public operation.
FirstLabel(op) ==
    CASE op = "add_server" -> "as_test"
      [] op = "remove_server" -> "rs_test"
      [] op \in {"get_node", "put", "get", "delete"} -> "gn_empty"
      [] op = "add_node" -> "ma_reg"
      [] op = "remove_one_virtual_node" -> "rv_empty"
      [] OTHER -> "gk_empty"

RingCalls ==
    IF impl = "code"
    THEN [op : {"add_server", "remove_server"}, node : Shards, key : {""}, value : {""}]
            \cup [op : {"get_node"}, node : {""}, key : Keys, value : {""}]
    ELSE [op : {"add_node"}, node : Shards, key : {""}, value : {""}]
            \cup [op : {"remove_one_virtual_node"}, node : {""}, key : {""}, value : {""}]
            \cup [op : {"get_node_for_key"}, node : {""}, key : Keys, value : {""}]

\* A thread calls a public operation.
RingInvoke(t, call) ==
    /\ r_pc[t] = "idle"
    /\ r_calls < MaxCalls
    /\ r_calls' = r_calls + 1
    /\ r_loc' = [r_loc EXCEPT ![t] =
                    [NoLocals EXCEPT !.op = call.op, !.node = call.node, !.key = call.key,
                                     !.value = call.value]]
    /\ Goto(t, FirstLabel(call.op))
    /\ UNCHANGED <<seqVars, storeVars, ring_lock, r_out, objectVars>>

\* The caller takes the outcome and goes on.
RingReturn(t) ==
    /\ r_pc[t] = "done"
    /\ Goto(t, "idle")
    /\ r_loc' = [r_loc EXCEPT ![t] = NoLocals]
    /\ r_out' = [r_out EXCEPT ![t] = [exc |-> "", val |-> "None"]]
    /\ UNCHANGED <<seqVars, storeVars, ring_lock, r_calls, objectVars>>

(* ---- code.py DistributedKVStore.add_server / ConsistentHashRing.add_node ---- *)
\* code.py:119  if node_id not in self.nodes
as_test(t) ==
    /\ r_pc[t] = "as_test"
    /\ IF r_loc[t].node \notin DOMAIN c_nodes
       THEN Goto(t, "as_reg") /\ UNCHANGED <<r_out, r_loc>>
       ELSE Finish(t, "", "None")
    /\ UNCHANGED <<c_ring, c_ring_map, c_nodes, ring_lock, r_calls>>
    /\ CodeRingFrame

\* Faulty variant: the shard's store is not put in the shard map before its virtual
\* nodes go on the ring.
as_reg_after_ring(t) ==
    /\ r_pc[t] = "as_reg"
    /\ Goto(t, "an_lock")
    /\ UNCHANGED <<c_ring, c_ring_map, c_nodes, ring_lock, r_loc, r_out, r_calls>>
    /\ CodeRingFrame

\* code.py:121  self.nodes[node_id] = PhysicalNode(node_id): a new object, with an
\* empty _store and a free _lock, takes the place of the one registered before (if
\* another thread registered one since the test of line 119).
as_reg(t) ==
    /\ r_pc[t] = "as_reg"
    /\ LET id == r_loc[t].node
       IN  /\ c_nodes' = DictSet(c_nodes, id, EmptyDict)
           /\ IF id \in DOMAIN c_nodes
              THEN /\ c_obj' = DictSet(c_obj, id, c_obj[id] + 1)
                   /\ c_orphans' = DictSet(c_orphans, <<id, c_obj[id]>>, c_nodes[id])
              ELSE /\ c_obj' = DictSet(c_obj, id, 1)
                   /\ UNCHANGED c_orphans
    /\ Goto(t, "an_lock")
    /\ UNCHANGED <<c_ring, c_ring_map, ring_lock, r_loc, r_out, r_calls, node_locks>>
    /\ RingFrame /\ UNCHANGED <<m_ring, m_sorted_positions, m_nodes>>

\* code.py:71  with self._lock
an_lock(t) ==
    /\ r_pc[t] = "an_lock"
    /\ ring_lock_acquirable(ring_lock)
    /\ ring_lock' = t
    /\ Goto(t, IF replicas > 0 THEN "an_map" ELSE "an_unlock")
    /\ UNCHANGED <<c_ring, c_ring_map, c_nodes, r_loc, r_out, r_calls>>
    /\ CodeRingFrame

\* code.py:73-75  h = self._hash_val(virtual_id); self.ring_map[h] = node_id
an_map(t) ==
    /\ r_pc[t] = "an_map"
    /\ c_ring_map' = DictSet(c_ring_map, hash_vnode(r_loc[t].node, r_loc[t].i), r_loc[t].node)
    /\ Goto(t, "an_ins")
    /\ UNCHANGED <<c_ring, c_nodes, ring_lock, r_loc, r_out, r_calls>>
    /\ CodeRingFrame

\* code.py:77  bisect.insort(self.ring, h), and the loop's next round
an_ins(t) ==
    /\ r_pc[t] = "an_ins"
    /\ c_ring' = insort(c_ring, hash_vnode(r_loc[t].node, r_loc[t].i))
    /\ r_loc' = [r_loc EXCEPT ![t].i = @ + 1]
    /\ Goto(t, IF r_loc[t].i + 1 < replicas THEN "an_map" ELSE "an_unlock")
    /\ UNCHANGED <<c_ring_map, c_nodes, ring_lock, r_out, r_calls>>
    /\ CodeRingFrame

\* Faulty variant: add_node returns without releasing the lock.
an_return_locked(t) ==
    /\ r_pc[t] = "an_unlock"
    /\ Finish(t, "", "None")
    /\ UNCHANGED <<c_ring, c_ring_map, c_nodes, ring_lock, r_calls>>
    /\ CodeRingFrame

\* code.py:71  the with block of add_node is left
an_unlock(t) ==
    /\ r_pc[t] = "an_unlock"
    /\ ring_lock' = "free"
    /\ Finish(t, "", "None")
    /\ UNCHANGED <<c_ring, c_ring_map, c_nodes, r_calls>>
    /\ CodeRingFrame

(* -- code.py DistributedKVStore.remove_server / ConsistentHashRing.remove_node -- *)
\* code.py:127  if node_id in self.nodes
rs_test(t) ==
    /\ r_pc[t] = "rs_test"
    /\ IF r_loc[t].node \in DOMAIN c_nodes
       THEN Goto(t, "rn_lock") /\ UNCHANGED <<r_out, r_loc>>
       ELSE Finish(t, "", "None")
    /\ UNCHANGED <<c_ring, c_ring_map, c_nodes, ring_lock, r_calls>>
    /\ CodeRingFrame

\* code.py:81  with self._lock
rn_lock(t) ==
    /\ r_pc[t] = "rn_lock"
    /\ ring_lock_acquirable(ring_lock)
    /\ ring_lock' = t
    /\ Goto(t, "rn_collect")
    /\ UNCHANGED <<c_ring, c_ring_map, c_nodes, r_loc, r_out, r_calls>>
    /\ CodeRingFrame

\* code.py:82  hashes_to_remove = [...]
rn_collect(t) ==
    /\ r_pc[t] = "rn_collect"
    /\ LET hs == hashes_to_remove(c_ring_map, r_loc[t].node)
       IN  /\ r_loc' = [r_loc EXCEPT ![t].hs = hs, ![t].i = 1]
           /\ Goto(t, IF hs = <<>> THEN "rn_unlock" ELSE "rn_del")
    /\ UNCHANGED <<c_ring, c_ring_map, c_nodes, ring_lock, r_out, r_calls>>
    /\ CodeRingFrame

\* code.py:85  del self.ring_map[h]
rn_del(t) ==
    /\ r_pc[t] = "rn_del"
    /\ LET h == r_loc[t].hs[r_loc[t].i]
       IN  IF h \in DOMAIN c_ring_map
           THEN /\ c_ring_map' = DictDel(c_ring_map, h)
                /\ Goto(t, "rn_rem")
                /\ UNCHANGED <<ring_lock, r_loc, r_out>>
           ELSE /\ ring_lock' = "free"
                /\ Finish(t, "KeyError", "None")
                /\ UNCHANGED c_ring_map
    /\ UNCHANGED <<c_ring, c_nodes, r_calls>>
    /\ CodeRingFrame

\* code.py:87  self.ring.remove(h), and the loop's next round
rn_rem(t) ==
    /\ r_pc[t] = "rn_rem"
    /\ LET h == r_loc[t].hs[r_loc[t].i]
       IN  IF h \in Elems(c_ring)
           THEN /\ c_ring' = list_remove(c_ring, h)
                /\ r_loc' = [r_loc EXCEPT ![t].i = @ + 1]
                /\ Goto(t, IF r_loc[t].i < Len(r_loc[t].hs) THEN "rn_del" ELSE "rn_unlock")
                /\ UNCHANGED <<ring_lock, r_out>>
           ELSE /\ ring_lock' = "free"
                /\ Finish(t, "ValueError", "None")
                /\ UNCHANGED c_ring
    /\ UNCHANGED <<c_ring_map, c_nodes, r_calls>>
    /\ CodeRingFrame

\* code.py:81  the with block of remove_node is left
rn_unlock(t) ==
    /\ r_pc[t] = "rn_unlock"
    /\ ring_lock' = "free"
    /\ Finish(t, "", "None")
    /\ UNCHANGED <<c_ring, c_ring_map, c_nodes, r_calls>>
    /\ CodeRingFrame

(* ------------------ code.py ConsistentHashRing.get_node ------------------ *)
\* get_node returns val: to the caller, or into target_node_id of
\* DistributedKVStore.put / get / delete (code.py:133,141,147).
GetNodeReturn(t, val) ==
    IF r_loc[t].op = "get_node" THEN Finish(t, "", val)
    ELSE /\ r_loc' = [r_loc EXCEPT ![t].nid = val]
         /\ Goto(t, "kv_test")
         /\ UNCHANGED r_out

\* code.py:93  if not self.ring: return None   (no lock is taken)
gn_empty(t) ==
    /\ r_pc[t] = "gn_empty"
    /\ IF c_ring = <<>>
       THEN GetNodeReturn(t, "None")
       ELSE Goto(t, "gn_search") /\ UNCHANGED <<r_out, r_loc>>
    /\ UNCHANGED <<c_ring, c_ring_map, c_nodes, ring_lock, r_calls>>
    /\ CodeRingFrame

\* code.py:96-99  h = self._hash_val(key); idx = bisect.bisect_left(self.ring, h)
gn_search(t) ==
    /\ r_pc[t] = "gn_search"
    /\ r_loc' = [r_loc EXCEPT ![t].idx = code_search(c_ring, hash_value(r_loc[t].key))]
    /\ Goto(t, "gn_wrap")
    /\ UNCHANGED <<c_ring, c_ring_map, c_nodes, ring_lock, r_out, r_calls>>
    /\ CodeRingFrame

\* code.py:102-103  if idx == len(self.ring): idx = 0
gn_wrap(t) ==
    /\ r_pc[t] = "gn_wrap"
    /\ r_loc' = [r_loc EXCEPT ![t].idx = IF @ = Len(c_ring) THEN 0 ELSE @]
    /\ Goto(t, "gn_index")
    /\ UNCHANGED <<c_ring, c_ring_map, c_nodes, ring_lock, r_out, r_calls>>
    /\ CodeRingFrame

\* Faulty variant: the position is taken out of the list (self.ring.pop(idx)).
gn_index_pop(t) ==
    /\ r_pc[t] = "gn_index"
    /\ IF r_loc[t].idx < Len(c_ring)
       THEN /\ r_loc' = [r_loc EXCEPT ![t].pos = c_ring[r_loc[t].idx + 1]]
            /\ c_ring' = RemoveAt(c_ring, r_loc[t].idx + 1)
            /\ Goto(t, "gn_map")
            /\ UNCHANGED r_out
       ELSE Finish(t, "IndexError", "None") /\ UNCHANGED c_ring
    /\ UNCHANGED <<c_ring_map, c_nodes, ring_lock, r_calls>>
    /\ CodeRingFrame

\* code.py:105  target_hash = self.ring[idx]
gn_index(t) ==
    /\ r_pc[t] = "gn_index"
    /\ IF r_loc[t].idx < Len(c_ring)
       THEN /\ r_loc' = [r_loc EXCEPT ![t].pos = c_ring[r_loc[t].idx + 1]]
            /\ Goto(t, "gn_map")
            /\ UNCHANGED r_out
       ELSE Finish(t, "IndexError", "None")
    /\ UNCHANGED <<c_ring, c_ring_map, c_nodes, ring_lock, r_calls>>
    /\ CodeRingFrame

\* code.py:106  return self.ring_map[target_hash]
gn_map(t) ==
    /\ r_pc[t] = "gn_map"
    /\ IF r_loc[t].pos \in DOMAIN c_ring_map
       THEN GetNodeReturn(t, c_ring_map[r_loc[t].pos])
       ELSE Finish(t, "KeyError", "None")
    /\ UNCHANGED <<c_ring, c_ring_map, c_nodes, ring_lock, r_calls>>
    /\ CodeRingFrame

(* ------------- code.py DistributedKVStore.put / get / delete ------------- *)
\* code.py:134  if target_node_id: ... else: raise Exception("No servers available!")
\* code.py:142,148  if target_node_id and target_node_id in self.nodes: ... (else None)
kv_test(t) ==
    /\ r_pc[t] = "kv_test"
    /\ IF r_loc[t].op = "put"
       THEN IF r_loc[t].nid # "None"
            THEN Goto(t, "kv_node") /\ UNCHANGED <<r_out, r_loc>>
            ELSE Finish(t, "Exception: No servers available!", "None")
       ELSE IF r_loc[t].nid # "None" /\ r_loc[t].nid \in DOMAIN c_nodes
            THEN Goto(t, "kv_node") /\ UNCHANGED <<r_out, r_loc>>
            ELSE Finish(t, "", "None")
    /\ UNCHANGED <<c_ring, c_ring_map, c_nodes, ring_lock, r_calls>>
    /\ CodeRingFrame

\* code.py:136,143,149  self.nodes[target_node_id]: the PhysicalNode object called
kv_node(t) ==
    /\ r_pc[t] = "kv_node"
    /\ IF r_loc[t].nid \in DOMAIN c_nodes
       THEN /\ r_loc' = [r_loc EXCEPT ![t].obj = c_obj[r_loc[t].nid]]
            /\ Goto(t, "kv_lock")
            /\ UNCHANGED r_out
       ELSE Finish(t, "KeyError", "None")
    /\ UNCHANGED <<c_ring, c_ring_map, c_nodes, ring_lock, r_calls>>
    /\ CodeRingFrame

\* The _store of the PhysicalNode object <<id, obj>>: the one in self.nodes, or one
\* that was replaced there.
ObjectStore(id, obj) == IF c_obj[id] = obj THEN c_nodes[id] ELSE c_orphans[<<id, obj>>]

\* code.py:24,29,34  with self._lock (PhysicalNode): no thread holds the object's lock
node_lock_acquirable(id, obj) == \A u \in RingThreads : <<id, obj, u>> \notin node_locks

\* code.py:24,29,34  with self._lock: (enter)
kv_lock(t) ==
    /\ r_pc[t] = "kv_lock"
    /\ node_lock_acquirable(r_loc[t].nid, r_loc[t].obj)
    /\ node_locks' = node_locks \cup {<<r_loc[t].nid, r_loc[t].obj, t>>}
    /\ Goto(t, "kv_body")
    /\ UNCHANGED <<c_ring, c_ring_map, c_nodes, ring_lock, r_loc, r_out, r_calls,
                   c_obj, c_orphans>>
    /\ RingFrame /\ UNCHANGED <<m_ring, m_sorted_positions, m_nodes>>

\* code.py:25  self._store[key] = value;  30  return self._store.get(key);
\* code.py:35-36  if key in self._store: del self._store[key]
kv_body(t) ==
    /\ r_pc[t] = "kv_body"
    /\ LET id == r_loc[t].nid
           obj == r_loc[t].obj
           store == ObjectStore(id, obj)
           after == CASE r_loc[t].op = "put" -> PhysicalNode_put(store, r_loc[t].key, r_loc[t].value)
                      [] r_loc[t].op = "delete" -> PhysicalNode_delete(store, r_loc[t].key)
                      [] OTHER -> store
           ret == IF r_loc[t].op = "get" THEN PhysicalNode_get(store, r_loc[t].key) ELSE "None"
       IN  /\ IF c_obj[id] = obj
              THEN c_nodes' = [c_nodes EXCEPT ![id] = after] /\ UNCHANGED c_orphans
              ELSE c_orphans' = [c_orphans EXCEPT ![<<id, obj>>] = after] /\ UNCHANGED c_nodes
           /\ r_loc' = [r_loc EXCEPT ![t].ret = ret]
    /\ Goto(t, "kv_unlock")
    /\ UNCHANGED <<c_ring, c_ring_map, ring_lock, r_out, r_calls, c_obj, node_locks>>
    /\ RingFrame /\ UNCHANGED <<m_ring, m_sorted_positions, m_nodes>>

\* code.py:24,29,34  the with block of the PhysicalNode method is left; the result
\* goes back through put / get / delete (delete and put return nothing)
kv_unlock(t) ==
    /\ r_pc[t] = "kv_unlock"
    /\ node_locks' = node_locks \ {<<r_loc[t].nid, r_loc[t].obj, t>>}
    /\ Finish(t, "", r_loc[t].ret)
    /\ UNCHANGED <<c_ring, c_ring_map, c_nodes, ring_lock, r_calls, c_obj, c_orphans>>
    /\ RingFrame /\ UNCHANGED <<m_ring, m_sorted_positions, m_nodes>>

CodeDataNext ==
    \E t \in RingThreads :
       kv_test(t) \/ kv_node(t) \/ kv_lock(t) \/ kv_body(t) \/ kv_unlock(t)

CodeRingNext ==
    \E t \in RingThreads :
       \/ as_test(t) \/ as_reg(t) \/ an_lock(t) \/ an_map(t) \/ an_ins(t) \/ an_unlock(t)
       \/ rs_test(t) \/ rn_lock(t) \/ rn_collect(t) \/ rn_del(t) \/ rn_rem(t) \/ rn_unlock(t)
       \/ gn_empty(t) \/ gn_search(t) \/ gn_wrap(t) \/ gn_index(t) \/ gn_map(t)

(* ------- main.py Cluster.add_node / ConsistentHashRing.add_node --------- *)
\* main.py:135,85  node = Node(node_id); self.nodes[node.node_id] = node
ma_reg(t) ==
    /\ r_pc[t] = "ma_reg"
    /\ m_nodes' = DictSet(m_nodes, r_loc[t].node, EmptyDict)
    /\ Goto(t, IF replicas > 0 THEN "ma_test" ELSE "ma_sort")
    /\ UNCHANGED <<m_ring, m_sorted_positions, r_loc, r_out, r_calls>>
    /\ MainRingFrame

\* main.py:87-90  pos = hash_value(vnode_key); if pos in self.ring: continue
ma_test(t) ==
    /\ r_pc[t] = "ma_test"
    /\ IF main_occupied(m_ring, hash_vnode(r_loc[t].node, r_loc[t].i))
       THEN /\ r_loc' = [r_loc EXCEPT ![t].i = @ + 1]
            /\ Goto(t, IF r_loc[t].i + 1 < replicas THEN "ma_test" ELSE "ma_sort")
       ELSE /\ Goto(t, "ma_set")
            /\ UNCHANGED r_loc
    /\ UNCHANGED <<m_ring, m_sorted_positions, m_nodes, r_out, r_calls>>
    /\ MainRingFrame

\* main.py:91  self.ring[pos] = (node.node_id, r)
ma_set(t) ==
    /\ r_pc[t] = "ma_set"
    /\ m_ring' = DictSet(m_ring, hash_vnode(r_loc[t].node, r_loc[t].i),
                          <<r_loc[t].node, r_loc[t].i>>)
    /\ Goto(t, "ma_append")
    /\ UNCHANGED <<m_sorted_positions, m_nodes, r_loc, r_out, r_calls>>
    /\ MainRingFrame

\* main.py:92  self.sorted_positions.append(pos), and the loop's next round
ma_append(t) ==
    /\ r_pc[t] = "ma_append"
    /\ m_sorted_positions' = Append(m_sorted_positions, hash_vnode(r_loc[t].node, r_loc[t].i))
    /\ r_loc' = [r_loc EXCEPT ![t].i = @ + 1]
    /\ Goto(t, IF r_loc[t].i + 1 < replicas THEN "ma_test" ELSE "ma_sort")
    /\ UNCHANGED <<m_ring, m_nodes, r_out, r_calls>>
    /\ MainRingFrame

\* main.py:93  self.sorted_positions.sort()
ma_sort(t) ==
    /\ r_pc[t] = "ma_sort"
    /\ m_sorted_positions' = list_sort(m_sorted_positions)
    /\ Finish(t, "", "None")
    /\ UNCHANGED <<m_ring, m_nodes, r_calls>>
    /\ MainRingFrame

(* ----------- main.py ConsistentHashRing.remove_one_virtual_node ---------- *)
\* main.py:98-99  if not self.sorted_positions: raise RuntimeError
rv_empty(t) ==
    /\ r_pc[t] = "rv_empty"
    /\ IF m_sorted_positions = <<>>
       THEN Finish(t, "RuntimeError", "None")
       ELSE Goto(t, "rv_first") /\ UNCHANGED <<r_out, r_loc>>
    /\ UNCHANGED <<m_ring, m_sorted_positions, m_nodes, r_calls>>
    /\ MainRingFrame

\* main.py:101  pos = self.sorted_positions[0]
rv_first(t) ==
    /\ r_pc[t] = "rv_first"
    /\ IF m_sorted_positions # <<>>
       THEN /\ r_loc' = [r_loc EXCEPT ![t].pos =
                            m_sorted_positions[main_victim_index(m_sorted_positions)]]
            /\ Goto(t, "rv_read")
            /\ UNCHANGED r_out
       ELSE Finish(t, "IndexError", "None")
    /\ UNCHANGED <<m_ring, m_sorted_positions, m_nodes, r_calls>>
    /\ MainRingFrame

\* main.py:102  node_id, replica_index = self.ring[pos]
rv_read(t) ==
    /\ r_pc[t] = "rv_read"
    /\ IF r_loc[t].pos \in DOMAIN m_ring
       THEN /\ r_loc' = [r_loc EXCEPT ![t].nid = m_ring[r_loc[t].pos][1],
                                       ![t].rep = m_ring[r_loc[t].pos][2]]
            /\ Goto(t, "rv_del")
            /\ UNCHANGED r_out
       ELSE Finish(t, "KeyError", "None")
    /\ UNCHANGED <<m_ring, m_sorted_positions, m_nodes, r_calls>>
    /\ MainRingFrame

\* main.py:104  del self.ring[pos]
rv_del(t) ==
    /\ r_pc[t] = "rv_del"
    /\ IF r_loc[t].pos \in DOMAIN m_ring
       THEN /\ m_ring' = DictDel(m_ring, r_loc[t].pos)
            /\ Goto(t, "rv_pop")
            /\ UNCHANGED <<r_out, r_loc>>
       ELSE /\ Finish(t, "KeyError", "None")
            /\ UNCHANGED m_ring
    /\ UNCHANGED <<m_sorted_positions, m_nodes, r_calls>>
    /\ MainRingFrame

\* main.py:105-108  self.sorted_positions.pop(0); return node_id, replica_index, pos
rv_pop(t) ==
    /\ r_pc[t] = "rv_pop"
    /\ IF m_sorted_positions # <<>>
       THEN /\ m_sorted_positions' =
                   RemoveAt(m_sorted_positions, main_victim_index(m_sorted_positions))
            /\ Finish(t, "", <<r_loc[t].nid, r_loc[t].rep, r_loc[t].pos>>)
       ELSE /\ Finish(t, "IndexError", "None")
            /\ UNCHANGED m_sorted_positions
    /\ UNCHANGED <<m_ring, m_nodes, r_calls>>
    /\ MainRingFrame

(* --------------- main.py ConsistentHashRing.get_node_for_key ------------- *)
\* main.py:112-113  if not self.sorted_positions: raise RuntimeError
gk_empty(t) ==
    /\ r_pc[t] = "gk_empty"
    /\ IF m_sorted_positions = <<>>
       THEN Finish(t, "RuntimeError", "None")
       ELSE Goto(t, "gk_search") /\ UNCHANGED <<r_out, r_loc>>
    /\ UNCHANGED <<m_ring, m_sorted_positions, m_nodes, r_calls>>
    /\ MainRingFrame

\* main.py:115-116  h = hash_value(key); idx = bisect_right(self.sorted_positions, h)
gk_search(t) ==
    /\ r_pc[t] = "gk_search"
    /\ r_loc' = [r_loc EXCEPT ![t].idx =
                    main_search(m_sorted_positions, hash_value(r_loc[t].key))]
    /\ Goto(t, "gk_wrap")
    /\ UNCHANGED <<m_ring, m_sorted_positions, m_nodes, r_out, r_calls>>
    /\ MainRingFrame

\* main.py:118-119  if idx == len(self.sorted_positions): idx = 0
gk_wrap(t) ==
    /\ r_pc[t] = "gk_wrap"
    /\ r_loc' = [r_loc EXCEPT ![t].idx = IF @ = Len(m_sorted_positions) THEN 0 ELSE @]
    /\ Goto(t, "gk_index")
    /\ UNCHANGED <<m_ring, m_sorted_positions, m_nodes, r_out, r_calls>>
    /\ MainRingFrame

\* main.py:121  pos = self.sorted_positions[idx]
gk_index(t) ==
    /\ r_pc[t] = "gk_index"
    /\ IF r_loc[t].idx < Len(m_sorted_positions)
       THEN /\ r_loc' = [r_loc EXCEPT ![t].pos = m_sorted_positions[r_loc[t].idx + 1]]
            /\ Goto(t, "gk_map")
            /\ UNCHANGED r_out
       ELSE Finish(t, "IndexError", "None")
    /\ UNCHANGED <<m_ring, m_sorted_positions, m_nodes, r_calls>>
    /\ MainRingFrame

\* main.py:122  node_id, _ = self.ring[pos]
gk_map(t) ==
    /\ r_pc[t] = "gk_map"
    /\ IF r_loc[t].pos \in DOMAIN m_ring
       THEN /\ r_loc' = [r_loc EXCEPT ![t].nid = m_ring[r_loc[t].pos][1]]
            /\ Goto(t, "gk_node")
            /\ UNCHANGED r_out
       ELSE Finish(t, "KeyError", "None")
    /\ UNCHANGED <<m_ring, m_sorted_positions, m_nodes, r_calls>>
    /\ MainRingFrame

\* main.py:123  return self.nodes[node_id]
gk_node(t) ==
    /\ r_pc[t] = "gk_node"
    /\ IF r_loc[t].nid \in DOMAIN m_nodes
       THEN Finish(t, "", r_loc[t].nid)
       ELSE Finish(t, "KeyError", "None")
    /\ UNCHANGED <<m_ring, m_sorted_positions, m_nodes, r_calls>>
    /\ MainRingFrame

MainRingNext ==
    \E t \in RingThreads :
       \/ ma_reg(t) \/ ma_test(t) \/ ma_set(t) \/ ma_append(t) \/ ma_sort(t)
       \/ rv_empty(t) \/ rv_first(t) \/ rv_read(t) \/ rv_del(t) \/ rv_pop(t)
       \/ gk_empty(t) \/ gk_search(t) \/ gk_wrap(t) \/ gk_index(t) \/ gk_map(t) \/ gk_node(t)

\* The virtual-node hashes of the statement-level specification: all distinct and
\* interleaved between the shards (A:0 < B:0 < A:1 < B:1), or with one position
\* shared by two shards.  The key's hash is any position.
ShardIndex(n) == IF n = "A" THEN 0 ELSE 1

RingVnodeHashes ==
    { [x \in VNodeIds |-> (x[2] * Cardinality(Shards) + ShardIndex(x[1])) % MaxPos],
      [x \in VNodeIds |-> (x[2] + ShardIndex(x[1])) % MaxPos] }

InitRing ==
    /\ impl \in {"code", "main"}
    /\ md5 \in [vnode : RingVnodeHashes, key : [Keys -> Positions]]
    /\ InitEmptyCluster
    /\ InitStoreIdle
    /\ InitRingIdle

NextRing ==
    \/ \E t \in RingThreads : \E call \in RingCalls : RingInvoke(t, call)
    \/ \E t \in RingThreads : RingReturn(t)
    \/ CodeRingNext
    \/ MainRingNext

SpecRing == InitRing /\ [][NextRing]_vars

(* ====== code.py DistributedKVStore under concurrent callers, by statement ====== *)
\* The calls of the DistributedKVStore interface.
DataCalls ==
    [op : {"add_server", "remove_server"}, node : Shards, key : {""}, value : {""}]
        \cup [op : {"put"}, node : {""}, key : Keys, value : Values]
        \cup [op : {"get", "delete"}, node : {""}, key : Keys, value : {""}]

\* The cluster after its first call, add_server("A"), has completed; no thread is
\* inside a call.  Every key hashes to position 1: past A:0, on the position of B:0,
\* so that adding and removing B changes the owner.
InitData ==
    /\ impl = "code"
    /\ md5 \in [vnode : RingVnodeHashes, key : {[k \in Keys |-> 1]}]
    /\ LET rg == code_add_node([ring |-> <<>>, ring_map |-> EmptyDict], "A")
       IN  /\ c_ring = rg.ring
           /\ c_ring_map = rg.ring_map
    /\ c_nodes = DictSet(EmptyDict, "A", EmptyDict)
    /\ c_obj = DictSet(EmptyDict, "A", 1)
    /\ c_orphans = EmptyDict
    /\ node_locks = {}
    /\ m_ring = EmptyDict
    /\ m_sorted_positions = <<>>
    /\ m_nodes = EmptyDict
    /\ InitStoreIdle
    /\ ring_lock = "free"
    /\ r_pc = [t \in RingThreads |-> "idle"]
    /\ r_loc = [t \in RingThreads |-> NoLocals]
    /\ r_out = [t \in RingThreads |-> [exc |-> "", val |-> "None"]]
    /\ r_calls = 1

NextData ==
    \/ \E t \in RingThreads : \E call \in DataCalls : RingInvoke(t, call)
    \/ \E t \in RingThreads : RingReturn(t)
    \/ CodeRingNext
    \/ CodeDataNext

SpecData == InitData /\ [][NextData]_vars

\* Scheduling: a thread that can run its next statement eventually runs it, and a
\* thread waiting for a lock that becomes free again and again eventually gets it.
\* Callers are not obliged to make further calls.
ThreadAcquire(t) == an_lock(t) \/ rn_lock(t) \/ kv_lock(t)

ThreadRun(t) ==
    \/ as_test(t) \/ as_reg(t) \/ an_map(t) \/ an_ins(t) \/ an_unlock(t)
    \/ rs_test(t) \/ rn_collect(t) \/ rn_del(t) \/ rn_rem(t) \/ rn_unlock(t)
    \/ gn_empty(t) \/ gn_search(t) \/ gn_wrap(t) \/ gn_index(t) \/ gn_map(t)
    \/ kv_test(t) \/ kv_node(t) \/ kv_body(t) \/ kv_unlock(t)
    \/ RingReturn(t)

FairData == \A t \in RingThreads : WF_vars(ThreadRun(t)) /\ SF_vars(ThreadAcquire(t))

SpecDataFair == SpecData /\ FairData

(* ============ lookups and reads on a fixed topology, by statement ============ *)
\* The read calls: ring.get_node and DistributedKVStore.get (code.py),
\* ring.get_node_for_key (main.py).
LookupCalls ==
    IF impl = "code"
    THEN [op : {"get_node", "get"}, node : {""}, key : Keys, value : {""}]
    ELSE [op : {"get_node_for_key"}, node : {""}, key : Keys, value : {""}]

\* The ring after the shards of `order` were added one after the other.
RECURSIVE CodeAddAll(_, _)
CodeAddAll(rg, order) ==
    IF order = <<>> THEN rg ELSE CodeAddAll(code_add_node(rg, Head(order)), Tail(order))

RECURSIVE MainAddAll(_, _)
MainAddAll(st, order) ==
    IF order = <<>> THEN st ELSE MainAddAll(main_add_node(st, Head(order)), Tail(order))

LookupTopologies == {<<"A">>, <<"B">>, <<"A", "B">>, <<"B", "A">>}

\* A cluster whose shards were added in some order and in which at most one store
\* holds the key; no thread is inside a call, and no topology call is made again.
InitLookup ==
    /\ impl \in {"code", "main"}
    /\ md5 \in [vnode : RingVnodeHashes, key : [Keys -> Positions]]
    /\ \E order \in LookupTopologies, holder \in Shards \cup {"none"} :
          LET stores == [n \in Elems(order) |->
                            IF n = holder THEN [k \in Keys |-> "x"] ELSE EmptyDict]
              rg == CodeAddAll([ring |-> <<>>, ring_map |-> EmptyDict], order)
              st == MainAddAll([ring |-> EmptyDict, sorted_positions |-> <<>>], order)
          IN  IF impl = "code"
              THEN /\ c_ring = rg.ring
                   /\ c_ring_map = rg.ring_map
                   /\ c_nodes = stores
                   /\ c_obj = [n \in Elems(order) |-> 1]
                   /\ m_ring = EmptyDict
                   /\ m_sorted_positions = <<>>
                   /\ m_nodes = EmptyDict
              ELSE /\ m_ring = st.ring
                   /\ m_sorted_positions = st.sorted_positions
                   /\ m_nodes = stores
                   /\ c_ring = <<>>
                   /\ c_ring_map = EmptyDict
                   /\ c_nodes = EmptyDict
                   /\ c_obj = EmptyDict
    /\ c_orphans = EmptyDict
    /\ node_locks = {}
    /\ InitStoreIdle
    /\ ring_lock = "free"
    /\ r_pc = [t \in RingThreads |-> "idle"]
    /\ r_loc = [t \in RingThreads |-> NoLocals]
    /\ r_out = [t \in RingThreads |-> [exc |-> "", val |-> "None"]]
    /\ r_calls = 0

NextLookup ==
    \/ \E t \in RingThreads : \E call \in LookupCalls : RingInvoke(t, call)
    \/ \E t \in RingThreads : RingReturn(t)
    \/ \E t \in RingThreads :
          \/ gn_empty(t) \/ gn_search(t) \/ gn_wrap(t) \/ gn_index(t) \/ gn_map(t)
          \/ kv_test(t) \/ kv_node(t) \/ kv_lock(t) \/ kv_body(t) \/ kv_unlock(t)
          \/ gk_empty(t) \/ gk_search(t) \/ gk_wrap(t) \/ gk_index(t) \/ gk_map(t) \/ gk_node(t)

SpecLookup == InitLookup /\ [][NextLookup]_vars

(* ============================== claims ================================ *)
MinOf(S) == CHOOSE x \in S : \A y \in S : x <= y

\* The occupied position clockwise of p, strictly after it, wrapping to the smallest.
StrictSuccessor(S, p) ==
    IF \E q \in S : q > p THEN MinOf({q \in S : q > p}) ELSE MinOf(S)

CodeRingOwners == {c_ring_map[h] : h \in (DOMAIN c_ring_map) \cap Elems(c_ring)}

MainRingOwners == {m_ring[p][1] : p \in (DOMAIN m_ring) \cap Elems(m_sorted_positions)}

\* C1 (as claimed): when hash(k) equals an occupied position p, the lookup of either
\* variant returns the owner of the occupied position strictly after p (wrapping),
\* not the owner at p.
C1_SuccessorCorrectness ==
    /\ impl = "code" =>
         \A k \in Keys :
            (hash_value(k) \in Elems(c_ring) /\ Elems(c_ring) = DOMAIN c_ring_map) =>
               LET q == StrictSuccessor(Elems(c_ring), hash_value(k))
                   r == code_get_node(c_ring, c_ring_map, k)
               IN  /\ r.exc = ""
                   /\ q \in DOMAIN c_ring_map
                   /\ r.val = c_ring_map[q]
    /\ impl = "main" =>
         \A k \in Keys :
            hash_value(k) \in Elems(m_sorted_positions) =>
               LET q == StrictSuccessor(Elems(m_sorted_positions), hash_value(k))
                   r == get_node_for_key(m_ring, m_sorted_positions, m_nodes, k)
               IN  /\ r.exc = ""
                   /\ q \in DOMAIN m_ring
                   /\ r.val = m_ring[q][1]

\* C2 (as claimed): once a shard has a virtual node on the ring, every lookup
\* completes without failure and returns a shard that owns a virtual node on the ring.
C2_Coverage ==
    /\ (impl = "code" /\ DOMAIN c_ring_map # {}) =>
         \A k \in Keys :
            LET r == code_get_node(c_ring, c_ring_map, k)
            IN  r.exc = "" /\ r.val \in CodeRingOwners
    /\ (impl = "main" /\ DOMAIN m_ring # {}) =>
         \A k \in Keys :
            LET r == get_node_for_key(m_ring, m_sorted_positions, m_nodes, k)
            IN  r.exc = "" /\ r.val \in MainRingOwners

\* C4 (as claimed): with a shard on the ring, put(k, v) then get(k) returns v,
\* delete(k) then get(k) returns absent, and delete(k) reports whether it removed k
\* (True for a present key, False without error for an absent one).
C4_RoundTrip ==
    /\ (impl = "code" /\ c_ring # <<>>) =>
         \A k \in Keys :
            LET d == DistributedKVStore_delete(c_nodes, k)
                present == DistributedKVStore_get(c_nodes, k).val # "None"
            IN  /\ \A v \in Values :
                      LET pt == DistributedKVStore_put(c_nodes, k, v)
                      IN  /\ pt.exc = ""
                          /\ DistributedKVStore_get(pt.nodes, k) = [exc |-> "", val |-> v]
                /\ d.exc = ""
                /\ DistributedKVStore_get(d.nodes, k) = [exc |-> "", val |-> "None"]
                /\ d.val = IF present THEN "True" ELSE "False"
    /\ (impl = "main" /\ m_sorted_positions # <<>>) =>
         \A k \in Keys :
            LET d == Cluster_delete(m_nodes, k)
                present == Cluster_get(m_nodes, k).val # "None"
            IN  /\ \A v \in Values :
                      LET pt == Cluster_put(m_nodes, k, v)
                      IN  /\ pt.exc = ""
                          /\ Cluster_get(pt.nodes, k) = [exc |-> "", val |-> v]
                /\ d.exc = ""
                /\ Cluster_get(d.nodes, k) = [exc |-> "", val |-> "None"]
                /\ d.val = IF present THEN "True" ELSE "False"

\* C5 (as claimed): on an empty ring the lookup and the Router's put, get and delete
\* each end in an error (not None, not a silent no-op) and change no state.
C5_EmptyRingErrors ==
    /\ (impl = "code" /\ c_ring = <<>>) =>
         \A k \in Keys :
            /\ code_get_node(c_ring, c_ring_map, k).exc # ""
            /\ DistributedKVStore_get(c_nodes, k).exc # ""
            /\ DistributedKVStore_delete(c_nodes, k).exc # ""
            /\ DistributedKVStore_delete(c_nodes, k).nodes = c_nodes
            /\ \A v \in Values :
                  /\ DistributedKVStore_put(c_nodes, k, v).exc # ""
                  /\ DistributedKVStore_put(c_nodes, k, v).nodes = c_nodes
    /\ (impl = "main" /\ m_sorted_positions = <<>>) =>
         \A k \in Keys :
            /\ get_node_for_key(m_ring, m_sorted_positions, m_nodes, k).exc # ""
            /\ Cluster_get(m_nodes, k).exc # ""
            /\ Cluster_delete(m_nodes, k).exc # ""
            /\ Cluster_delete(m_nodes, k).nodes = m_nodes
            /\ \A v \in Values :
                  /\ Cluster_put(m_nodes, k, v).exc # ""
                  /\ Cluster_put(m_nodes, k, v).nodes = m_nodes

\* C6 (as claimed): adding a shard id that is already registered fails with
\* AlreadyExists and leaves the ring and every store unchanged.
C6_AddKnownShardFails ==
    /\ impl = "code" =>
         \A n \in DOMAIN c_nodes :
            LET r == add_server(n)
            IN  /\ r.exc = "AlreadyExists"
                /\ r.ring = c_ring /\ r.ring_map = c_ring_map /\ r.nodes = c_nodes
    /\ impl = "main" =>
         \A n \in DOMAIN m_nodes :
            LET r == Cluster_add_node(n)
            IN  /\ r.exc = "AlreadyExists"
                /\ r.ring = m_ring /\ r.sorted_positions = m_sorted_positions
                /\ r.nodes = m_nodes

\* C7 (as claimed): removing a shard id that is not registered returns NotFound
\* and leaves the ring and every store unchanged.
C7_RemoveUnknownShardFails ==
    impl = "code" =>
       \A n \in Shards \ DOMAIN c_nodes :
          LET r == remove_server(n)
          IN  /\ r.exc = "NotFound"
              /\ r.ring = c_ring /\ r.ring_map = c_ring_map /\ r.nodes = c_nodes

\* C8 (as claimed): removing a registered shard takes every position it owns out of
\* the sequence and the mapping, keeps every other position with its owner, and
\* changes no store.
C8_RemoveShardEffect ==
    impl = "code" =>
       \A n \in DOMAIN c_nodes :
          LET r == remove_server(n)
          IN  /\ r.exc = ""
              /\ \A h \in DOMAIN c_ring_map :
                    IF c_ring_map[h] = n
                    THEN h \notin DOMAIN r.ring_map /\ h \notin Elems(r.ring)
                    ELSE /\ h \in DOMAIN r.ring_map /\ r.ring_map[h] = c_ring_map[h]
                         /\ h \in Elems(r.ring)
              /\ r.nodes = c_nodes

\* C9: on a non-empty ring remove_one_virtual_node removes exactly the virtual node
\* at the smallest occupied position, returns its (shard id, replica index,
\* position), lowers the virtual-node count by one and keeps every other position
\* and owner; on an empty ring it raises and changes nothing.
C9_RemoveOneVirtualNode ==
    impl = "main" =>
       LET r == remove_one_virtual_node
       IN  IF m_sorted_positions = <<>>
           THEN /\ r.exc = "RuntimeError"
                /\ r.ring = m_ring /\ r.sorted_positions = m_sorted_positions
           ELSE LET p == MinOf((DOMAIN m_ring) \cup Elems(m_sorted_positions))
                IN  /\ r.exc = ""
                    /\ r.val = <<m_ring[p][1], m_ring[p][2], p>>
                    /\ Len(r.sorted_positions) = Len(m_sorted_positions) - 1
                    /\ Cardinality(DOMAIN r.ring) = Cardinality(DOMAIN m_ring) - 1
                    /\ DOMAIN r.ring = (DOMAIN m_ring) \ {p}
                    /\ Elems(r.sorted_positions) = Elems(m_sorted_positions) \ {p}
                    /\ StrictlyAscending(r.sorted_positions)
                    /\ \A q \in DOMAIN r.ring : r.ring[q] = m_ring[q]

\* C9 witness: a virtual node has been removed (a placed position of a registered
\* shard is gone) and the ring still holds virtual nodes of two shards.
C9_Witness ==
    /\ impl = "main"
    /\ \E n \in DOMAIN m_nodes, i \in ReplicaIdx : hash_vnode(n, i) \notin DOMAIN m_ring
    /\ Cardinality(MainRingOwners) = 2

\* C10: store calls are linearizable: every call takes effect at one point while it
\* holds the lock.  Critical sections exclude each other; whenever the lock is free
\* the store equals the map produced by the calls linearized so far; and every
\* completed call returns what the sequential map returns at its linearization
\* point (get: the latest put, or absent; a key snapshot: the key set at that instant).
C10_StoreLinearizable ==
    /\ \A t, u \in StoreThreads :
          (s_pc[t] \in {"body", "del", "iter", "release"}
             /\ s_pc[u] \in {"body", "del", "iter", "release"}) => t = u
    /\ \A t \in StoreThreads :
          s_pc[t] \in {"body", "del", "iter", "release"} => s_lock = t
    /\ s_lock = "free" => s_data = lin_data
    /\ \A t \in StoreThreads :
          s_pc[t] = "done" => s_out[t] = [exc |-> "", val |-> lin_out[t]]

\* C10 witness: a thread is midway through a key snapshot of a two-key store while
\* the other thread waits for the lock to delete one of those keys.
C10_Witness ==
    \E t, u \in StoreThreads :
       /\ t # u
       /\ s_pc[t] = "iter" /\ Cardinality(s_out[t].val) = 1
       /\ Cardinality(DOMAIN s_data) = 2
       /\ s_pc[u] = "acquire" /\ s_call[u].op = "delete"
       /\ s_call[u].key \in DOMAIN s_data

\* C3 (as claimed): a lookup running beside a ring mutation never searches an
\* unsorted sequence, never reads from the sequence a position that the mapping
\* lacks, never fails with KeyError or IndexError, and returns a registered shard.
C3_LookupSeesConsistentRing ==
    \A t \in RingThreads :
       /\ r_pc[t] = "gn_search" => IsSorted(c_ring)
       /\ r_pc[t] = "gk_search" => IsSorted(m_sorted_positions)
       /\ r_pc[t] = "gn_map" => r_loc[t].pos \in DOMAIN c_ring_map
       /\ r_pc[t] = "gk_map" => r_loc[t].pos \in DOMAIN m_ring
       /\ (r_pc[t] = "done" /\ r_loc[t].op \in {"get_node", "get_node_for_key"}) =>
             /\ r_out[t].exc \notin {"KeyError", "IndexError"}
             /\ (r_out[t].exc = "" /\ r_out[t].val # "None") =>
                   r_out[t].val \in (DOMAIN c_nodes) \cup (DOMAIN m_nodes)

\* C11: the ring never names a shard without a store.  In every state, also in the
\* middle of a concurrent add, every owner in the position-to-owner mapping has a
\* store in the shard map, and a lookup that resolved to a shard id finds its store.
C11_OwnerHasStore ==
    /\ \A h \in DOMAIN c_ring_map : c_ring_map[h] \in DOMAIN c_nodes
    /\ \A p \in DOMAIN m_ring : m_ring[p][1] \in DOMAIN m_nodes
    /\ \A t \in RingThreads :
          /\ r_pc[t] = "gk_node" => r_loc[t].nid \in DOMAIN m_nodes
          /\ (r_pc[t] = "done" /\ r_loc[t].op \in {"get_node", "get_node_for_key"}
                /\ r_out[t].exc = "" /\ r_out[t].val # "None") =>
                r_out[t].val \in (DOMAIN c_nodes) \cup (DOMAIN m_nodes)

\* C11 witness: one thread is in the middle of adding a shard (some of its virtual
\* nodes placed, not all) and another thread's lookup has resolved to that shard.
C11_Witness ==
    \E t, u \in RingThreads :
       /\ r_pc[t] \in {"an_map", "an_ins", "ma_test", "ma_set", "ma_append"}
       /\ r_loc[t].i >= 1
       /\ r_pc[u] = "done" /\ r_loc[u].op \in {"get_node", "get_node_for_key"}
       /\ r_out[u].exc = "" /\ r_out[u].val = r_loc[t].node

\* What a topology call made in the current state leaves behind: the ring and the
\* shard map after add_server(n) or remove_server(n) (code.py), after add_node(n) or
\* remove_one_virtual_node() (main.py).
CodeTopologyResults ==
    {add_server(n) : n \in Shards} \cup {remove_server(n) : n \in Shards}

MainTopologyResults ==
    {[ring |-> Cluster_add_node(n).ring,
      sorted_positions |-> Cluster_add_node(n).sorted_positions,
      nodes |-> Cluster_add_node(n).nodes] : n \in Shards}
        \cup {[ring |-> remove_one_virtual_node.ring,
               sorted_positions |-> remove_one_virtual_node.sorted_positions,
               nodes |-> m_nodes]}

\* C12 (as claimed): whenever a topology call changes the owner of a key, the new
\* owner's store has no entry for the key, so a get right after the change returns
\* absent.
C12_NoStaleRead ==
    /\ impl = "code" =>
         \A k \in Keys : \A r \in CodeTopologyResults :
            LET o == code_get_node(c_ring, c_ring_map, k)
                n == code_get_node(r.ring, r.ring_map, k)
            IN  (n.exc = "" /\ n.val # "None" /\ n # o /\ n.val \in DOMAIN r.nodes) =>
                   PhysicalNode_get(r.nodes[n.val], k) = "None"
    /\ impl = "main" =>
         \A k \in Keys : \A r \in MainTopologyResults :
            LET o == get_node_for_key(m_ring, m_sorted_positions, m_nodes, k)
                n == get_node_for_key(r.ring, r.sorted_positions, r.nodes, k)
            IN  (n.exc = "" /\ n # o) => KeyValueStore_get(r.nodes[n.val], k) = "None"

\* C12 (amended): entries are never relocated.  Whenever a topology call changes
\* the owner of a key, the new owner's store holds for the key nothing or the value
\* it already held before the change, so a get right after the change returns
\* absent or that value, never an entry of another shard's store.
C12_NoRelocatedRead ==
    /\ impl = "code" =>
         \A k \in Keys : \A r \in CodeTopologyResults :
            LET o == code_get_node(c_ring, c_ring_map, k)
                n == code_get_node(r.ring, r.ring_map, k)
            IN  (n.exc = "" /\ n.val # "None" /\ n # o) =>
                   /\ n.val \in DOMAIN r.nodes
                   /\ LET g == PhysicalNode_get(r.nodes[n.val], k)
                      IN  \/ g = "None"
                          \/ /\ n.val \in DOMAIN c_nodes
                             /\ g = PhysicalNode_get(c_nodes[n.val], k)
    /\ impl = "main" =>
         \A k \in Keys : \A r \in MainTopologyResults :
            LET o == get_node_for_key(m_ring, m_sorted_positions, m_nodes, k)
                n == get_node_for_key(r.ring, r.sorted_positions, r.nodes, k)
            IN  (n.exc = "" /\ n # o) =>
                   LET g == KeyValueStore_get(r.nodes[n.val], k)
                   IN  \/ g = "None"
                       \/ /\ n.val \in DOMAIN m_nodes
                          /\ g = KeyValueStore_get(m_nodes[n.val], k)

\* C12 witness: the key's owner has changed to a shard and back.  Both stores hold
\* the key with different values, the other shard is off the ring, and the get
\* returns the value the current owner held before the change.
C12_Witness ==
    \E k \in Keys :
       \/ /\ impl = "code"
          /\ \E s, s2 \in DOMAIN c_nodes :
                /\ s # s2
                /\ code_get_node(c_ring, c_ring_map, k) = [exc |-> "", val |-> s]
                /\ s2 \notin CodeRingOwners
                /\ k \in DOMAIN c_nodes[s] /\ k \in DOMAIN c_nodes[s2]
                /\ c_nodes[s][k] # c_nodes[s2][k]
                /\ DistributedKVStore_get(c_nodes, k).val = c_nodes[s][k]
       \/ /\ impl = "main"
          /\ \E s, s2 \in DOMAIN m_nodes :
                /\ s # s2
                /\ get_node_for_key(m_ring, m_sorted_positions, m_nodes, k)
                      = [exc |-> "", val |-> s]
                /\ s2 \notin MainRingOwners
                /\ k \in DOMAIN m_nodes[s] /\ k \in DOMAIN m_nodes[s2]
                /\ m_nodes[s][k] # m_nodes[s2][k]
                /\ Cluster_get(m_nodes, k).val = m_nodes[s][k]

\* C13 (as claimed): removing a registered shard makes its id unknown and discards
\* its store; and a shard id with no virtual node on the ring (never added, or
\* removed) can be added: the add succeeds, every virtual node of the shard has its
\* position on the ring, and the shard is backed by an empty store.
C13_RemovedShardCanReturn ==
    impl = "code" =>
       /\ \A n \in DOMAIN c_nodes : n \notin DOMAIN remove_server(n).nodes
       /\ \A n \in Shards :
             (\A h \in DOMAIN c_ring_map : c_ring_map[h] # n) =>
                LET r == add_server(n)
                IN  /\ r.exc = ""
                    /\ n \in DOMAIN r.nodes /\ r.nodes[n] = EmptyDict
                    /\ \A i \in ReplicaIdx :
                          /\ hash_vnode(n, i) \in DOMAIN r.ring_map
                          /\ hash_vnode(n, i) \in Elems(r.ring)

\* C14 (as claimed): after any sequence of completed add, remove and
\* remove-one-virtual-node calls, colliding hashes included, the position sequence
\* is strictly ascending (sorted, no duplicates) and its elements are exactly the
\* keys of the position-to-owner mapping.
C14_RingStateInvariant ==
    /\ impl = "code" =>
          /\ StrictlyAscending(c_ring)
          /\ Elems(c_ring) = DOMAIN c_ring_map
    /\ impl = "main" =>
          /\ StrictlyAscending(m_sorted_positions)
          /\ Elems(m_sorted_positions) = DOMAIN m_ring

\* C15 (as claimed): adding a shard never changes the owner of a position that was
\* occupied before the call and never inserts a position a second time: a replica
\* that hashes to an occupied position is dropped.
C15_CollisionSkip ==
    /\ impl = "code" =>
         \A n \in Shards :
            LET r == add_server(n)
            IN  /\ \A h \in DOMAIN c_ring_map :
                      h \in DOMAIN r.ring_map /\ r.ring_map[h] = c_ring_map[h]
                /\ StrictlyAscending(c_ring) => StrictlyAscending(r.ring)
    /\ impl = "main" =>
         \A n \in Shards :
            LET r == Cluster_add_node(n)
            IN  /\ \A p \in DOMAIN m_ring : p \in DOMAIN r.ring /\ r.ring[p] = m_ring[p]
                /\ StrictlyAscending(m_sorted_positions) =>
                      StrictlyAscending(r.sorted_positions)

\* The ring states that k mutations run one after the other, in any order and for
\* any shard ids, can leave behind, starting from the empty cluster.
CodeSerialAdd(s, n) ==
    IF n \in s.known THEN s
    ELSE LET rg == code_add_node([ring |-> s.ring, ring_map |-> s.ring_map], n)
         IN  [ring |-> rg.ring, ring_map |-> rg.ring_map, known |-> s.known \cup {n}]

CodeSerialRemove(s, n) ==
    IF n \notin s.known THEN s
    ELSE LET rg == code_remove_node([ring |-> s.ring, ring_map |-> s.ring_map], n)
         IN  [ring |-> rg.ring, ring_map |-> rg.ring_map, known |-> s.known]

RECURSIVE CodeSerial(_)
CodeSerial(k) ==
    IF k = 0 THEN {[ring |-> <<>>, ring_map |-> EmptyDict, known |-> {}]}
    ELSE LET S == CodeSerial(k - 1)
         IN  S \cup {CodeSerialAdd(s, n) : s \in S, n \in Shards}
               \cup {CodeSerialRemove(s, n) : s \in S, n \in Shards}

MainSerialRemove(s) ==
    IF s.sorted_positions = <<>> THEN s
    ELSE [ring |-> DictDel(s.ring, s.sorted_positions[1]),
          sorted_positions |-> Tail(s.sorted_positions)]

RECURSIVE MainSerial(_)
MainSerial(k) ==
    IF k = 0 THEN {[ring |-> EmptyDict, sorted_positions |-> <<>>]}
    ELSE LET S == MainSerial(k - 1)
         IN  S \cup {main_add_node(s, n) : s \in S, n \in Shards}
               \cup {MainSerialRemove(s) : s \in S}

\* A thread is between the first and the last statement that touches the ring in
\* add_node / remove_node (code.py) or add_node / remove_one_virtual_node (main.py).
InRingMutation(t) ==
    r_pc[t] \in {"an_map", "an_ins", "an_unlock", "rn_collect", "rn_del", "rn_rem", "rn_unlock",
                 "ma_test", "ma_set", "ma_append", "ma_sort",
                 "rv_first", "rv_read", "rv_del", "rv_pop"}

\* C16 (as claimed): two threads are never inside ring mutations at the same time,
\* and whenever no call is in progress the ring is one that the calls made so far,
\* run one after the other in some order, can produce.
C16_MutationsSerializable ==
    /\ \A t, u \in RingThreads : (InRingMutation(t) /\ InRingMutation(u)) => t = u
    /\ (\A t \in RingThreads : r_pc[t] \in {"idle", "done"}) =>
          /\ impl = "code" =>
                [ring |-> c_ring, ring_map |-> c_ring_map, known |-> DOMAIN c_nodes]
                    \in CodeSerial(r_calls)
          /\ impl = "main" =>
                [ring |-> m_ring, sorted_positions |-> m_sorted_positions]
                    \in MainSerial(r_calls)

\* The position the lookup of main.py resolves key k to (sorted_positions[idx]).
MainLookupPos(sorted_positions, k) ==
    LET i0 == main_search(sorted_positions, hash_value(k))
        idx == IF i0 = Len(sorted_positions) THEN 0 ELSE i0
    IN  sorted_positions[idx + 1]

\* C17: removal remaps only the keys of what was removed.  When remove_server(s)
\* leaves another shard on the ring, every key owned by a shard other than s keeps
\* its owner; and remove_one_virtual_node keeps the owner of every key whose lookup
\* resolved to a position other than the removed one.
C17_RemovalRemapsOnlyRemoved ==
    /\ impl = "code" =>
         \A s \in DOMAIN c_nodes :
            LET r == remove_server(s)
            IN  DOMAIN r.ring_map # {} =>
                   \A k \in Keys :
                      LET o == code_get_node(c_ring, c_ring_map, k)
                      IN  (o.exc = "" /\ o.val \notin {"None", s}) =>
                             code_get_node(r.ring, r.ring_map, k) = o
    /\ impl = "main" =>
         LET r == remove_one_virtual_node
         IN  r.exc = "" =>
                \A k \in Keys :
                   LET o == get_node_for_key(m_ring, m_sorted_positions, m_nodes, k)
                   IN  (o.exc = "" /\ MainLookupPos(m_sorted_positions, k) # r.val[3]) =>
                          get_node_for_key(r.ring, r.sorted_positions, m_nodes, k) = o

\* C17 witness: a removal has taken place (a registered shard has no virtual node
\* on the ring, or one of its placed positions is gone), the ring still holds
\* another shard, and the key resolves to that shard.
C17_Witness ==
    \E k \in Keys :
       \/ /\ impl = "code"
          /\ \E s \in DOMAIN c_nodes :
                /\ s \notin CodeRingOwners
                /\ \A i \in ReplicaIdx : hash_vnode(s, i) \notin DOMAIN c_ring_map
                /\ code_get_node(c_ring, c_ring_map, k).exc = ""
                /\ code_get_node(c_ring, c_ring_map, k).val \in DOMAIN c_nodes
       \/ /\ impl = "main"
          /\ \E s \in DOMAIN m_nodes, i \in ReplicaIdx :
                /\ hash_vnode(s, i) \notin DOMAIN m_ring
                /\ get_node_for_key(m_ring, m_sorted_positions, m_nodes, k).exc = ""
                /\ get_node_for_key(m_ring, m_sorted_positions, m_nodes, k).val # s

\* C18 (as claimed): no key is in the stores of two shards on the ring at once, and
\* a key stored in the store of a shard on the ring is owned by that shard.
C18_KeyInOneStore ==
    /\ impl = "code" =>
         \A k \in Keys :
            LET holders == {s \in (DOMAIN c_nodes) \cap CodeRingOwners : k \in DOMAIN c_nodes[s]}
            IN  /\ Cardinality(holders) <= 1
                /\ \A s \in holders :
                      code_get_node(c_ring, c_ring_map, k) = [exc |-> "", val |-> s]
    /\ impl = "main" =>
         \A k \in Keys :
            LET holders == {s \in (DOMAIN m_nodes) \cap MainRingOwners : k \in DOMAIN m_nodes[s]}
            IN  /\ Cardinality(holders) <= 1
                /\ \A s \in holders :
                      get_node_for_key(m_ring, m_sorted_positions, m_nodes, k)
                         = [exc |-> "", val |-> s]

\* C18 (amended): every put and delete acts on exactly one store, the store of the
\* shard the ring names as the key's owner at the time of the call: a successful
\* put leaves the key with its value in the owner's store, a successful delete
\* leaves the owner's store without the key, and every other store is unchanged.
C18_WritesGoToOwnerOnly ==
    /\ impl = "code" =>
         \A k \in Keys :
            LET o == code_get_node(c_ring, c_ring_map, k)
                d == DistributedKVStore_delete(c_nodes, k)
            IN  /\ \A v \in Values :
                      LET pt == DistributedKVStore_put(c_nodes, k, v)
                      IN  pt.exc = "" =>
                             /\ o.exc = "" /\ o.val \in DOMAIN c_nodes
                             /\ DOMAIN pt.nodes = DOMAIN c_nodes
                             /\ pt.nodes[o.val] = DictSet(c_nodes[o.val], k, v)
                             /\ \A s \in (DOMAIN c_nodes) \ {o.val} : pt.nodes[s] = c_nodes[s]
                /\ (d.exc = "" /\ o.val # "None") =>
                      /\ o.exc = "" /\ o.val \in DOMAIN c_nodes
                      /\ DOMAIN d.nodes = DOMAIN c_nodes
                      /\ k \notin DOMAIN d.nodes[o.val]
                      /\ \A s \in (DOMAIN c_nodes) \ {o.val} : d.nodes[s] = c_nodes[s]
    /\ impl = "main" =>
         \A k \in Keys :
            LET o == get_node_for_key(m_ring, m_sorted_positions, m_nodes, k)
                d == Cluster_delete(m_nodes, k)
            IN  /\ \A v \in Values :
                      LET pt == Cluster_put(m_nodes, k, v)
                      IN  pt.exc = "" =>
                             /\ o.exc = "" /\ o.val \in DOMAIN m_nodes
                             /\ DOMAIN pt.nodes = DOMAIN m_nodes
                             /\ pt.nodes[o.val] = DictSet(m_nodes[o.val], k, v)
                             /\ \A s \in (DOMAIN m_nodes) \ {o.val} : pt.nodes[s] = m_nodes[s]
                /\ d.exc = "" =>
                      /\ o.exc = "" /\ o.val \in DOMAIN m_nodes
                      /\ DOMAIN d.nodes = DOMAIN m_nodes
                      /\ k \notin DOMAIN d.nodes[o.val]
                      /\ \A s \in (DOMAIN m_nodes) \ {o.val} : d.nodes[s] = m_nodes[s]

\* C18 witness: the key was put under two owners.  Two shards on the ring both hold
\* it, with different values, and the next put goes to one of them only.
C18_Witness ==
    \E k \in Keys :
       \/ /\ impl = "code"
          /\ \E s, s2 \in (DOMAIN c_nodes) \cap CodeRingOwners :
                /\ s # s2
                /\ k \in DOMAIN c_nodes[s] /\ k \in DOMAIN c_nodes[s2]
                /\ c_nodes[s][k] # c_nodes[s2][k]
                /\ code_get_node(c_ring, c_ring_map, k) = [exc |-> "", val |-> s]
       \/ /\ impl = "main"
          /\ \E s, s2 \in (DOMAIN m_nodes) \cap MainRingOwners :
                /\ s # s2
                /\ k \in DOMAIN m_nodes[s] /\ k \in DOMAIN m_nodes[s2]
                /\ m_nodes[s][k] # m_nodes[s2][k]
                /\ get_node_for_key(m_ring, m_sorted_positions, m_nodes, k)
                      = [exc |-> "", val |-> s]

\* The locks thread t holds: the ring lock and PhysicalNode locks.
LocksHeld(t) ==
    Cardinality({l \in node_locks : l[3] = t}) + (IF ring_lock = t THEN 1 ELSE 0)

\* C19: no thread ever holds two locks at once (the ring lock and a store lock, or
\* two store locks); a thread that is not inside a call holds no lock, whether the
\* call returned or raised; and under fair scheduling every add_server,
\* remove_server, put, get and delete call that was started completes.
C19_DeadlockFree ==
    /\ [](\A t \in RingThreads :
             /\ LocksHeld(t) <= 1
             /\ r_pc[t] \in {"idle", "done"} => LocksHeld(t) = 0)
    /\ \A t \in RingThreads : (r_pc[t] \notin {"idle", "done"}) ~> (r_pc[t] = "done")

\* C19 witness: one thread holds the ring lock inside add_node or remove_node, the
\* other holds the lock of a PhysicalNode inside put, get or delete.
C19_Witness ==
    \E t, u \in RingThreads :
       /\ t # u
       /\ ring_lock = t
       /\ \E l \in node_locks : l[3] = u
       /\ r_pc[u] = "kv_body"

\* C20: lookups and reads are read-only and deterministic.  On a fixed topology no
\* statement of get_node, get_node_for_key or get changes the ring or any store, and
\* two completed calls of the same operation for the same key have the same outcome.
C20_ReadsAreReadOnly ==
    /\ [][UNCHANGED <<c_ring, c_ring_map, c_nodes, c_orphans,
                      m_ring, m_sorted_positions, m_nodes>>]_vars
    /\ [](\A t, u \in RingThreads :
             (r_pc[t] = "done" /\ r_pc[u] = "done" /\ r_loc[t].op = r_loc[u].op
                /\ r_loc[t].key = r_loc[u].key) => r_out[t] = r_out[u])

\* C20 witness: both threads have completed a lookup of the same key on a ring of
\* two shards and hold a shard id.
C20_Witness ==
    \E t, u \in RingThreads :
       /\ t # u
       /\ r_pc[t] = "done" /\ r_pc[u] = "done"
       /\ r_loc[t].op \in {"get_node", "get_node_for_key"} /\ r_loc[u].op = r_loc[t].op
       /\ r_loc[t].key = r_loc[u].key
       /\ r_out[t].exc = "" /\ r_out[t].val \in Shards
       /\ Cardinality(CodeRingOwners \cup MainRingOwners) = 2

=============================================================================
